---------------------------- MODULE Spec2Model ----------------------------
(* CanvasImage (src/lib/framebuffer.js, version 20250407): the resource    *)
(* factory, the pixel accessors, synchronisation, the spawn/despawn         *)
(* lifecycle, the derived resources and the asynchronous image load.        *)
EXTENDS Integers, Sequences, FiniteSets, TLC

(***************************************************************************)
(* Bounds of the model.                                                    *)
(***************************************************************************)
\* calls made by the caller and events delivered by the host, per behaviour
MaxSteps == 3
\* the same, in the behaviours of one resource's spawn and despawn
MaxLifeSteps == 4
\* the same, in the behaviours of the Framebuffer class
MaxFbSteps == 3
\* the same, in the behaviours of the image loads alone
MaxLoadSteps == 4
\* the same, in the behaviours of the loads of wide images
MaxWideSteps == 3
\* steps of a behaviour of PendingSpec
MaxPendingSteps == 5
\* the same, in the behaviours of the class with the registry
MaxRegistrySteps == 4

(***************************************************************************)
(* Program constants.                                                      *)
(***************************************************************************)
\* the largest accepted width and height
MaxDim == 8192
\* the value ImageData is filled with by create
White == 255

NULL == "null"

(***************************************************************************)
(* JavaScript numbers.  A number is hi * 65536 + lo + tenths / 10 with     *)
(* lo in 0..65535 and tenths in 0..9 (two 16-bit limbs and a fraction), so *)
(* that values at and beyond 2^32 are representable.                       *)
(***************************************************************************)
Limb == 65536
HalfLimb == 32768

Num(i) == [hi |-> i \div Limb, lo |-> i % Limb, tenths |-> 0]
Frac(i, t) == [hi |-> i \div Limb, lo |-> i % Limb, tenths |-> t]
\* k * 2^32 + i
Big(k, i) == [hi |-> k * Limb + (i \div Limb), lo |-> i % Limb, tenths |-> 0]

\* n | 0: truncation toward zero, then reduction modulo 2^32 to a signed
\* 32-bit integer
ToInt32(n) ==
    LET bump  == n.hi < 0 /\ n.tenths # 0
        lo1   == IF bump THEN (n.lo + 1) % Limb ELSE n.lo
        carry == IF bump /\ n.lo = Limb - 1 THEN 1 ELSE 0
        hi1   == (n.hi + carry) % Limb
        hi2   == IF hi1 >= HalfLimb THEN hi1 - Limb ELSE hi1
    IN  hi2 * Limb + lo1

\* the mathematical truncation toward zero of n, when it is a 32-bit value
InInt32(n) == n.hi >= -HalfLimb /\ n.hi < HalfLimb

\* a store into a Uint8ClampedArray
Clamp(v) == IF v < 0 THEN 0 ELSE IF v > 255 THEN 255 ELSE v

(***************************************************************************)
(* Values.                                                                 *)
(***************************************************************************)
NullImage == [tag |-> "null"]
NoCanvas == [tag |-> "undefined"]

Fill(n, v) == [k \in 1..n |-> v]

\* new ImageData(width, height): transparent black
ImageData(width, height) ==
    [tag |-> "ImageData", width |-> width, height |-> height,
     data |-> Fill(width * height * 4, 0)]

\* document.createElement('canvas') with its width and height set
Canvas(width, height) ==
    [tag |-> "canvas", width |-> width, height |-> height,
     bitmap |-> Fill(width * height * 4, 0), parentElement |-> NULL]

\* what a call returned
RetRef(i) == [kind |-> "ref", ref |-> i, val |-> <<>>]
RetNull == [kind |-> "null", ref |-> 0, val |-> <<>>]
RetVal(v) == [kind |-> "value", ref |-> 0, val |-> v]
RetThrow == [kind |-> "TypeError", ref |-> 0, val |-> <<>>]
RetEvent == [kind |-> "event", ref |-> 0, val |-> <<>>]

\* the call or event that came last: its name, the resource it was made on
\* (0: the factory) and its arguments
Call(op, this, args) == [op |-> op, this |-> this, args |-> args]

\* Framebuffer.resources of src/unnamed/part_001: the class declares no such
\* static field, so the name evaluates to undefined; an object would map
\* ids to resources
NoRegistry == [defined |-> FALSE, at |-> <<>>]

VARIABLES count, resources, imgs, cbLog, now, ret, last, steps, host, methods, registry

vars == <<count, resources, imgs, cbLog, now, ret, last, steps, host, methods, registry>>

(***************************************************************************)
(* CanvasImage.sync                                                        *)
(***************************************************************************)
syncThrows(this) == this.context = NULL \/ this.image = NullImage

\* context.putImageData(image, 0, 0): the pixels of image that lie within the
\* canvas replace the canvas's
putImageData(canvas, image) ==
    [canvas EXCEPT !.bitmap =
        [k \in 1..Len(@) |->
            LET px == (k - 1) \div 4
                cx == px % canvas.width
                cy == px \div canvas.width
            IN  IF cx < image.width /\ cy < image.height
                THEN image.data[(image.width * cy + cx) * 4 + ((k - 1) % 4) + 1]
                ELSE @[k]]]

\* sync returning early on a locked resource
sync_lockedNoop(this, t) ==
    IF this.locked THEN this
    ELSE [this EXCEPT !.canvas = putImageData(@, this.image),
                      !.dirty = FALSE,
                      !.updated = t]

\* sync without putImageData
sync_noPut(this, t) == [this EXCEPT !.dirty = FALSE, !.updated = t]

sync(this, t) ==
    [this EXCEPT !.canvas = putImageData(@, this.image),
                 !.dirty = FALSE,
                 !.updated = t]

(***************************************************************************)
(* CanvasImage.create                                                      *)
(***************************************************************************)
\* the counter left as it is
nextCount_stuck(cnt) == cnt

\* CanvasImage.count++
nextCount(cnt) == cnt + 1

\* the fields create assigns before it validates
newResource(width, height, cnt, t) ==
    [id |-> cnt, width |-> width, height |-> height, context |-> NULL,
     image |-> NullImage, created |-> t, updated |-> 0, path |-> NULL,
     ready |-> TRUE, locked |-> FALSE, dirty |-> FALSE, error |-> NULL,
     container |-> NULL, spawned |-> FALSE, canvas |-> NoCanvas]

badWidth(width) == 0 >= width \/ width > MaxDim
badHeight(height) == 0 >= height \/ height > MaxDim

\* the ImageData left as the constructor makes it
filledImage_unfilled(width, height) == ImageData(width, height)

\* new ImageData(width, height) with data.fill(255)
filledImage(width, height) ==
    [ImageData(width, height) EXCEPT !.data = Fill(width * height * 4, White)]

\* the context never found missing
contextFailed_never(context) == FALSE

\* if (ci.context === null)
contextFailed(context) == context = NULL

\* create(w, h) with the counter at cnt and the clock at t; getContext is
\* what canvas.getContext('2d', ...) returns ("ctx" or NULL)
create(w, h, cnt, t, getContext) ==
    LET width  == ToInt32(w)
        height == ToInt32(h)
        ci     == newResource(width, height, cnt, t)
    IN  IF badWidth(width) THEN [ci EXCEPT !.error = "bad width"]
        ELSE IF badHeight(height) THEN [ci EXCEPT !.error = "bad height"]
        ELSE LET c1 == [ci EXCEPT !.canvas = Canvas(width, height),
                                  !.context = getContext]
             IN  IF contextFailed(c1.context)
                 THEN [c1 EXCEPT !.error = "failed to create context"]
                 ELSE sync([c1 EXCEPT !.image = filledImage(width, height)], t)

(***************************************************************************)
(* The pixel buffer: a Uint8ClampedArray indexed from 0.  A store outside  *)
(* the array is ignored and a read outside it yields undefined.            *)
(***************************************************************************)
\* (undefined is written -1)
inArray(data, idx) == idx >= 0 /\ idx < Len(data)

store(data, idx, v) ==
    IF inArray(data, idx) THEN [data EXCEPT ![idx + 1] = Clamp(v)] ELSE data

read(data, idx) == IF inArray(data, idx) THEN data[idx + 1] ELSE -1

\* let pos = this.width * y * 4 + x * 4, after x |= 0 and y |= 0
pos(this, x, y) == this.width * ToInt32(y) * 4 + ToInt32(x) * 4

(***************************************************************************)
(* CanvasImage.setColor, getColor, setAlpha, getAlpha                      *)
(***************************************************************************)
setColorThrows(this) == ~this.locked /\ this.image = NullImage

\* setColor storing blue and red in each other's place
setColor_bgr(this, x, y, r, g, b) ==
    IF this.locked THEN this
    ELSE LET p  == pos(this, x, y)
             d0 == store(this.image.data, p + 0, b)
             d1 == store(d0, p + 1, g)
             d2 == store(d1, p + 2, r)
         IN  [this EXCEPT !.image.data = d2, !.dirty = TRUE]

\* setColor with the offset of the row alone (x * 4 is left out)
setColor_rowOnly(this, x, y, r, g, b) ==
    IF this.locked THEN this
    ELSE LET p  == this.width * ToInt32(y) * 4
             d0 == store(this.image.data, p + 0, r)
             d1 == store(d0, p + 1, g)
             d2 == store(d1, p + 2, b)
         IN  [this EXCEPT !.image.data = d2, !.dirty = TRUE]

setColor(this, x, y, r, g, b) ==
    IF this.locked THEN this
    ELSE LET p  == pos(this, x, y)
             d0 == store(this.image.data, p + 0, r)
             d1 == store(d0, p + 1, g)
             d2 == store(d1, p + 2, b)
         IN  [this EXCEPT !.image.data = d2, !.dirty = TRUE]

getThrows(this) == this.image = NullImage

getColor(this, x, y) ==
    LET p == pos(this, x, y)
    IN  <<read(this.image.data, p + 0),
          read(this.image.data, p + 1),
          read(this.image.data, p + 2)>>

setAlphaThrows(this) == ~this.locked /\ this.image = NullImage

\* setAlpha without the test of locked
setAlpha_ignoreLock(this, x, y, a) ==
    [this EXCEPT !.image.data = store(@, pos(this, x, y) + 3, a),
                 !.dirty = TRUE]

setAlpha(this, x, y, a) ==
    IF this.locked THEN this
    ELSE [this EXCEPT !.image.data = store(@, pos(this, x, y) + 3, a),
                      !.dirty = TRUE]

getAlpha(this, x, y) == read(this.image.data, pos(this, x, y) + 3)

(***************************************************************************)
(* CanvasImage.spawn, despawn                                              *)
(***************************************************************************)
\* the values the caller passes as a container: elements of the document,
\* an object that is no Element, and null
Elements == {"div1", "div2"}
NotElement == "object"
Containers == Elements \cup {NotElement, NULL}

\* if (this.error): a non-empty error string
truthy(error) == error # NULL /\ error # ""

\* spawn without the test of this.container
spawn_noSpawnedCheck(this, container) ==
    IF truthy(this.error) THEN this
    ELSE IF container = NULL \/ container \notin Elements
    THEN [this EXCEPT !.error = "container not element"]
    ELSE [this EXCEPT !.canvas.parentElement = container,
                      !.container = container,
                      !.spawned = TRUE]

\* spawn without the test of this.error
spawn_noErrorTest(this, container) ==
    IF container = NULL \/ container \notin Elements
    THEN [this EXCEPT !.error = "container not element"]
    ELSE IF this.container # NULL
    THEN [this EXCEPT !.error = "resource already spawned"]
    ELSE [this EXCEPT !.canvas.parentElement = container,
                      !.container = container,
                      !.spawned = TRUE]

\* spawn without the assignment of this.spawned
spawn_noFlag(this, container) ==
    IF truthy(this.error) THEN this
    ELSE IF container = NULL \/ container \notin Elements
    THEN [this EXCEPT !.error = "container not element"]
    ELSE IF this.container # NULL
    THEN [this EXCEPT !.error = "resource already spawned"]
    ELSE [this EXCEPT !.canvas.parentElement = container,
                      !.container = container]

spawn(this, container) ==
    IF truthy(this.error) THEN this
    ELSE IF container = NULL \/ container \notin Elements
    THEN [this EXCEPT !.error = "container not element"]
    ELSE IF this.container # NULL
    THEN [this EXCEPT !.error = "resource already spawned"]
    ELSE [this EXCEPT !.canvas.parentElement = container,
                      !.container = container,
                      !.spawned = TRUE]

\* despawn leaving this.container as it is
despawn_keepsContainer(this) ==
    IF this.container = NULL THEN this
    ELSE IF this.canvas.parentElement = NULL THEN this
    ELSE [this EXCEPT !.canvas.parentElement = NULL,
                      !.spawned = FALSE]

despawn(this) ==
    IF this.container = NULL THEN this
    ELSE IF this.canvas.parentElement = NULL THEN this
    ELSE [this EXCEPT !.canvas.parentElement = NULL,
                      !.container = NULL,
                      !.spawned = FALSE]

(***************************************************************************)
(* CanvasImage.clear, lock, unlock                                         *)
(***************************************************************************)
clearThrows(this) == ~this.locked /\ this.image = NullImage

\* clear setting the dirty bit
clear_marksDirty(this, r, g, b) ==
    IF this.locked THEN this
    ELSE [this EXCEPT !.dirty = TRUE,
                      !.image.data =
            [k \in 1..Len(@) |->
                IF (k - 1) % 4 = 0 THEN Clamp(r)
                ELSE IF (k - 1) % 4 = 1 THEN Clamp(g)
                ELSE IF (k - 1) % 4 = 2 THEN Clamp(b)
                ELSE @[k]]]

\* clear writing the alpha byte as well
clear_opaque(this, r, g, b) ==
    IF this.locked THEN this
    ELSE [this EXCEPT !.image.data =
            [k \in 1..Len(@) |->
                IF (k - 1) % 4 = 0 THEN Clamp(r)
                ELSE IF (k - 1) % 4 = 1 THEN Clamp(g)
                ELSE IF (k - 1) % 4 = 2 THEN Clamp(b)
                ELSE 255]]

\* a parameter with a default value: the k-th argument, or the default
\* when the call passes fewer
param(args, k, default) == IF Len(args) >= k THEN args[k] ELSE default

clear(this, r, g, b) ==
    IF this.locked THEN this
    ELSE [this EXCEPT !.image.data =
            [k \in 1..Len(@) |->
                IF (k - 1) % 4 = 0 THEN Clamp(r)
                ELSE IF (k - 1) % 4 = 1 THEN Clamp(g)
                ELSE IF (k - 1) % 4 = 2 THEN Clamp(b)
                ELSE @[k]]]

\* lock inverting the flag
lock_toggles(this) == [this EXCEPT !.locked = ~@]

lock(this) == [this EXCEPT !.locked = TRUE]

\* unlock resetting the error
unlock_clearsError(this) == [this EXCEPT !.locked = FALSE, !.error = NULL]

unlock(this) == [this EXCEPT !.locked = FALSE]

(***************************************************************************)
(* CanvasImage.clone, getChannel.  Each yields the resource create made    *)
(* (ci) and whether the call threw after making it.                        *)
(***************************************************************************)
\* clone copying the red, green and blue bytes only
clone_rgbOnly(this, cnt, t, getContext) ==
    LET ci == create(Num(this.width), Num(this.height), cnt, t, getContext)
    IN  IF this.image = NullImage \/ ci.image = NullImage
        THEN [thrown |-> TRUE, ci |-> ci]
        ELSE [thrown |-> FALSE,
              ci |-> sync([ci EXCEPT !.image.data =
                             [k \in 1..Len(@) |->
                                 IF k <= Len(this.image.data) /\ (k - 1) % 4 # 3
                                 THEN this.image.data[k] ELSE @[k]]], t)]

clone(this, cnt, t, getContext) ==
    LET ci == create(Num(this.width), Num(this.height), cnt, t, getContext)
    IN  IF this.image = NullImage \/ ci.image = NullImage
        THEN [thrown |-> TRUE, ci |-> ci]
        ELSE [thrown |-> FALSE,
              ci |-> sync([ci EXCEPT !.image.data =
                             [k \in 1..Len(@) |->
                                 IF k <= Len(this.image.data)
                                 THEN this.image.data[k] ELSE @[k]]], t)]

clampChannel(channel) ==
    LET c == ToInt32(channel)
    IN  IF 0 > c THEN 0 ELSE IF c > 3 THEN 3 ELSE c

\* a store of undefined (a read outside the source's array) stores 0
getChannel(this, channel, cnt, t, getContext) ==
    LET ch == clampChannel(channel)
        ci == create(Num(this.width), Num(this.height), cnt, t, getContext)
    IN  IF ci.image = NullImage \/ this.image = NullImage
        THEN [thrown |-> TRUE, ci |-> ci]
        ELSE [thrown |-> FALSE,
              ci |-> sync([ci EXCEPT !.image.data =
                             [k \in 1..Len(@) |->
                                 IF (k - 1) % 4 = 3 THEN @[k]
                                 ELSE LET v == read(this.image.data,
                                                    ((k - 1) \div 4) * 4 + ch)
                                      IN  IF v = -1 THEN 0 ELSE v]], t)]

(***************************************************************************)
(* CanvasImage.load and the handlers it registers on the Image element.    *)
(***************************************************************************)
\* the Image element of a resource: none, or one whose load is pending or
\* whose load or error event has been delivered; callback is the function
\* the handlers call ("fn": the caller's, "noop": the substituted one)
NoImg == [state |-> "none", callback |-> "noop"]

\* the callback kept whatever it is
defaultCallback_kept(callback) == callback

\* typeof callback !== 'function' ? function() {} : callback
defaultCallback(callback) == IF callback = "fn" THEN "fn" ELSE "noop"

\* load without the call of lock
load_unlocked(path, cnt, t, getContext) ==
    [create(Num(1), Num(1), cnt, t, getContext) EXCEPT
        !.ready = FALSE, !.path = path]

\* let ci = CanvasImage.create().lock(); ci.ready = false; ci.path = path
load(path, cnt, t, getContext) ==
    [lock(create(Num(1), Num(1), cnt, t, getContext)) EXCEPT
        !.ready = FALSE, !.path = path]

\* the pixels drawImage leaves on a width x height canvas
decoded(width, height) ==
    [k \in 1..(width * height * 4) |-> IF (k - 1) % 4 = 3 THEN 255 ELSE 40 + ((k - 1) % 8)]

\* the same without ci.ready = true
onLoadDrawn_notReady(ci, width, height) ==
    [ci EXCEPT !.canvas.width = width,
               !.canvas.height = height,
               !.canvas.bitmap = IF ci.context = NULL
                                 THEN Fill(width * height * 4, 0)
                                 ELSE decoded(width, height),
               !.width = width,
               !.height = height]

\* the 'load' handler up to drawImage, which throws when ci.context is null
onLoadDrawn(ci, width, height) ==
    [ci EXCEPT !.ready = TRUE,
               !.canvas.width = width,
               !.canvas.height = height,
               !.canvas.bitmap = IF ci.context = NULL
                                 THEN Fill(width * height * 4, 0)
                                 ELSE decoded(width, height),
               !.width = width,
               !.height = height]

\* the 'load' handler without the call of unlock
onLoad_noUnlock(ci, width, height, getImageDataOk) ==
    LET c1 == onLoadDrawn(ci, width, height)
    IN  IF ci.context = NULL
        THEN [ci |-> c1, called |-> FALSE, thrown |-> TRUE]
        ELSE IF ~getImageDataOk
        THEN [ci |-> [c1 EXCEPT !.ready = FALSE,
                                !.error = "getImageData failed"],
              called |-> TRUE, thrown |-> FALSE]
        ELSE [ci |-> [c1 EXCEPT !.image =
                               [tag |-> "ImageData", width |-> width,
                                height |-> height, data |-> c1.canvas.bitmap]],
              called |-> TRUE, thrown |-> FALSE]

\* the 'load' handler: the resource it leaves and whether callback(ci) ran;
\* getImageDataOk is whether context.getImageData returned (it can throw)
onLoad(ci, width, height, getImageDataOk) ==
    LET c1 == onLoadDrawn(ci, width, height)
    IN  IF ci.context = NULL
        THEN [ci |-> c1, called |-> FALSE, thrown |-> TRUE]
        ELSE IF ~getImageDataOk
        THEN [ci |-> [c1 EXCEPT !.ready = FALSE,
                                !.error = "getImageData failed"],
              called |-> TRUE, thrown |-> FALSE]
        ELSE [ci |-> unlock([c1 EXCEPT !.image =
                               [tag |-> "ImageData", width |-> width,
                                height |-> height, data |-> c1.canvas.bitmap]]),
              called |-> TRUE, thrown |-> FALSE]

\* the 'error' handler unlocking the resource
onError_unlocks(ci) == unlock([ci EXCEPT !.error = "failed to load image"])

\* the 'error' handler
onError(ci) == [ci EXCEPT !.error = "failed to load image"]

(***************************************************************************)
(* The arguments the caller passes and the results the host gives.         *)
(***************************************************************************)
\* <<width, height>> of a create call: in range, below and above the
\* range, 2^32 + 2 and 2.9
Sizes == {<<Num(1), Num(1)>>, <<Num(2), Num(1)>>, <<Num(1), Num(2)>>,
          <<Num(0), Num(1)>>, <<Num(1), Num(0)>>, <<Num(0), Num(0)>>,
          <<Num(MaxDim + 1), Num(1)>>, <<Num(1), Num(MaxDim + 1)>>,
          <<Big(1, 2), Num(1)>>, <<Frac(2, 9), Num(1)>>}
GetContextResults == {"ctx", NULL}
Coords == {Num(0), Num(1)}
Colors == {<<10, 20, 30>>, <<300, -5, 0>>}
Alphas == {128}
\* the arguments of a clear call: all three, none, and the first alone
ClearColors == {<<0, 0, 0>>, <<1, 2, 3>>, <<>>, <<7>>}
\* the channel of a getChannel call: around the range, and 2^32 + 1
Channels == {Num(-1), Num(0), Num(1), Num(2), Num(3), Num(4), Big(1, 1)}
Paths == {NULL, "a.png"}
Callbacks == {"fn", NULL}
ImageSizes == {<<2, 1>>, <<1, 2>>}

Refs == DOMAIN resources

(***************************************************************************)
(* The state after the script is loaded: no resource has been created.     *)
(* host is what canvas.getContext('2d', ...) returns on this host: a       *)
(* context, or null where the canvas is not supported.                     *)
(***************************************************************************)
Init ==
    /\ host \in GetContextResults
    /\ count = 0
    /\ resources = <<>>
    /\ imgs = <<>>
    /\ cbLog = <<>>
    /\ now = 1
    /\ ret = RetNull
    /\ last = Call("none", 0, <<>>)
    /\ steps = MaxSteps
    /\ methods = {}
    /\ registry = NoRegistry

\* one more call or event (steps counts those that remain); the host stays
\* what it is
Advance(op, this, args) ==
    /\ steps > 0
    /\ steps' = steps - 1
    /\ last' = Call(op, this, args)
    /\ UNCHANGED <<host, registry>>

\* a call that defines and deletes no custom method
Step(op, this, args) ==
    /\ Advance(op, this, args)
    /\ UNCHANGED methods

\* Date.now() is read: now is the next reading of the clock, and every
\* reading is later than the one before
Clock == now' = now + 1

\* a call on resource i that returns it, or throws and changes nothing
Method(op, i, args, throws, result) ==
    /\ Step(op, i, args)
    /\ IF throws
       THEN ret' = RetThrow /\ UNCHANGED resources
       ELSE ret' = RetRef(i) /\ resources' = [resources EXCEPT ![i] = result]
    /\ UNCHANGED <<count, imgs, cbLog>>

\* a call that makes resource ci
Make(ci, img) ==
    /\ Clock
    /\ resources' = Append(resources, ci)
    /\ count' = nextCount(count)
    /\ imgs' = Append(imgs, img)
    /\ UNCHANGED cbLog

\* the name res of `a.canvas.resource = res` in the minified build
\* (src/unnamed/part_002) is declared nowhere in it: reading it raises a
\* ReferenceError
resDeclared == FALSE

\* create of the minified build: the resource it has made and whether it
\* threw instead of returning it
create_min(w, h, cnt, t, getContext) ==
    LET width  == ToInt32(w)
        height == ToInt32(h)
        a      == newResource(width, height, cnt, t)
    IN  IF badWidth(width)
        THEN [ci |-> [a EXCEPT !.error = "bad width"], thrown |-> FALSE]
        ELSE IF badHeight(height)
        THEN [ci |-> [a EXCEPT !.error = "bad height"], thrown |-> FALSE]
        ELSE IF ~resDeclared
        THEN [ci |-> [a EXCEPT !.canvas = Canvas(width, height)],
              thrown |-> TRUE]
        ELSE LET a1 == [a EXCEPT !.canvas = Canvas(width, height),
                                 !.context = getContext]
             IN  IF contextFailed(a1.context)
                 THEN [ci |-> [a1 EXCEPT !.error = "failed to create context"],
                       thrown |-> FALSE]
                 ELSE [ci |-> sync([a1 EXCEPT !.image =
                                        filledImage(width, height)], t),
                       thrown |-> FALSE]

CreateCall(w, h) ==
    /\ Step("create", 0, <<w, h>>)
    /\ Make(create(w, h, count, now, host), NoImg)
    /\ ret' = RetRef(Len(resources) + 1)

SyncCall(i) ==
    /\ Method("sync", i, <<>>, syncThrows(resources[i]), sync(resources[i], now))
    /\ IF syncThrows(resources[i]) THEN UNCHANGED now ELSE Clock

SetColorCall(i, x, y, c) ==
    /\ Method("setColor", i, <<x, y, c>>, setColorThrows(resources[i]),
              setColor(resources[i], x, y, c[1], c[2], c[3]))
    /\ UNCHANGED now

SetAlphaCall(i, x, y, a) ==
    /\ Method("setAlpha", i, <<x, y, a>>, setAlphaThrows(resources[i]),
              setAlpha(resources[i], x, y, a))
    /\ UNCHANGED now

GetColorCall(i, x, y) ==
    /\ Step("getColor", i, <<x, y>>)
    /\ ret' = IF getThrows(resources[i]) THEN RetThrow
              ELSE RetVal(getColor(resources[i], x, y))
    /\ UNCHANGED <<count, resources, imgs, cbLog, now>>

GetAlphaCall(i, x, y) ==
    /\ Step("getAlpha", i, <<x, y>>)
    /\ ret' = IF getThrows(resources[i]) THEN RetThrow
              ELSE RetVal(<<getAlpha(resources[i], x, y)>>)
    /\ UNCHANGED <<count, resources, imgs, cbLog, now>>

SpawnCall(i, container) ==
    /\ Method("spawn", i, <<container>>, FALSE, spawn(resources[i], container))
    /\ UNCHANGED now

DespawnCall(i) ==
    /\ Method("despawn", i, <<>>, FALSE, despawn(resources[i]))
    /\ UNCHANGED now

ClearCall(i, c) ==
    /\ Method("clear", i, <<c>>, clearThrows(resources[i]),
              clear(resources[i], param(c, 1, 0), param(c, 2, 0), param(c, 3, 0)))
    /\ UNCHANGED now

LockCall(i) ==
    /\ Method("lock", i, <<>>, FALSE, lock(resources[i]))
    /\ UNCHANGED now

UnlockCall(i) ==
    /\ Method("unlock", i, <<>>, FALSE, unlock(resources[i]))
    /\ UNCHANGED now

\* a call that makes a resource from resource i
Derive(op, i, args, made) ==
    /\ Step(op, i, args)
    /\ Make(made.ci, NoImg)
    /\ ret' = IF made.thrown THEN RetThrow ELSE RetRef(Len(resources) + 1)

CloneCall(i) ==
    Derive("clone", i, <<>>, clone(resources[i], count, now, host))

GetChannelCall(i, channel) ==
    Derive("getChannel", i, <<channel>>,
           getChannel(resources[i], channel, count, now, host))

LoadCall(path, callback) ==
    /\ Step("load", 0, <<path, callback>>)
    /\ IF path = NULL
       THEN /\ ret' = RetNull
            /\ UNCHANGED <<count, resources, imgs, cbLog, now>>
       ELSE /\ Make(load(path, count, now, host),
                    [state |-> "pending", callback |-> defaultCallback(callback)])
            /\ ret' = RetRef(Len(resources) + 1)

\* what callback(ci) observes
Called(i, ci) == [ref |-> i, callback |-> imgs[i].callback, ci |-> ci]

\* the host delivers the Image's 'load' event
LoadEvent(i, size, getImageDataOk) ==
    /\ Step("onload", i, <<size, getImageDataOk>>)
    /\ imgs[i].state = "pending"
    /\ LET r == onLoad(resources[i], size[1], size[2], getImageDataOk)
       IN  /\ resources' = [resources EXCEPT ![i] = r.ci]
           /\ cbLog' = IF r.called THEN Append(cbLog, Called(i, r.ci)) ELSE cbLog
           /\ ret' = IF r.thrown THEN RetThrow ELSE RetEvent
    /\ imgs' = [imgs EXCEPT ![i].state = "loaded"]
    /\ UNCHANGED <<count, now>>

\* the host delivers the Image's 'error' event
ErrorEvent(i) ==
    /\ Step("onerror", i, <<>>)
    /\ imgs[i].state = "pending"
    /\ resources' = [resources EXCEPT ![i] = onError(@)]
    /\ cbLog' = Append(cbLog, Called(i, onError(resources[i])))
    /\ imgs' = [imgs EXCEPT ![i].state = "failed"]
    /\ ret' = RetEvent
    /\ UNCHANGED <<count, now>>

\* the host removes the canvas of resource i from its parent element
HostDetach(i) ==
    /\ Step("detach", i, <<>>)
    /\ resources[i].canvas # NoCanvas
    /\ resources[i].canvas.parentElement # NULL
    /\ resources' = [resources EXCEPT ![i].canvas.parentElement = NULL]
    /\ ret' = RetEvent
    /\ UNCHANGED <<count, imgs, cbLog, now>>

Next ==
    \/ \E s \in Sizes : CreateCall(s[1], s[2])
    \/ \E p \in Paths, cb \in Callbacks : LoadCall(p, cb)
    \/ \E i \in Refs, s \in ImageSizes, ok \in BOOLEAN : LoadEvent(i, s, ok)
    \/ \E i \in Refs : ErrorEvent(i)
    \/ \E i \in Refs : SyncCall(i)
    \/ \E i \in Refs, x \in Coords, y \in Coords, c \in Colors : SetColorCall(i, x, y, c)
    \/ \E i \in Refs, x \in Coords, y \in Coords, a \in Alphas : SetAlphaCall(i, x, y, a)
    \/ \E i \in Refs, x \in Coords, y \in Coords : GetColorCall(i, x, y)
    \/ \E i \in Refs, x \in Coords, y \in Coords : GetAlphaCall(i, x, y)
    \/ \E i \in Refs, c \in Containers : SpawnCall(i, c)
    \/ \E i \in Refs : DespawnCall(i)
    \/ \E i \in Refs, c \in ClearColors : ClearCall(i, c)
    \/ \E i \in Refs : LockCall(i)
    \/ \E i \in Refs : UnlockCall(i)
    \/ \E i \in Refs : CloneCall(i)
    \/ \E i \in Refs, ch \in Channels : GetChannelCall(i, ch)
    \/ \E i \in Refs : HostDetach(i)

Spec == Init /\ [][Next]_vars

(***************************************************************************)
(* The spawn and despawn lifecycle alone: resources are created and        *)
(* spawned, despawned and detached by the host, over longer behaviours.    *)
(***************************************************************************)
LifeSizes == {<<Num(1), Num(1)>>, <<Num(0), Num(1)>>}

InitLife ==
    /\ host \in GetContextResults
    /\ count = 0
    /\ resources = <<>>
    /\ imgs = <<>>
    /\ cbLog = <<>>
    /\ now = 1
    /\ ret = RetNull
    /\ last = Call("none", 0, <<>>)
    /\ steps = MaxLifeSteps
    /\ methods = {}
    /\ registry = NoRegistry

NextLife ==
    \/ \E s \in LifeSizes : CreateCall(s[1], s[2])
    \/ \E i \in Refs, c \in Containers : SpawnCall(i, c)
    \/ \E i \in Refs : DespawnCall(i)
    \/ \E i \in Refs : HostDetach(i)

LifeSpec == InitLife /\ [][NextLife]_vars

(***************************************************************************)
(* The image loads alone, with a fair image source: every Image whose src  *)
(* was set gets its 'load' or its 'error' event.  The caller stops calling *)
(* while steps remain for the events that are due.                         *)
(***************************************************************************)
Pending == {i \in DOMAIN imgs : imgs[i].state = "pending"}

CallerMayCall == steps > Cardinality(Pending) + 1

\* the image source delivers the event of resource i's Image
Deliver(i) ==
    /\ i \in Refs
    /\ \/ \E s \in ImageSizes, ok \in BOOLEAN : LoadEvent(i, s, ok)
       \/ ErrorEvent(i)

InitLoad ==
    /\ host \in GetContextResults
    /\ count = 0
    /\ resources = <<>>
    /\ imgs = <<>>
    /\ cbLog = <<>>
    /\ now = 1
    /\ ret = RetNull
    /\ last = Call("none", 0, <<>>)
    /\ steps = MaxLoadSteps
    /\ methods = {}
    /\ registry = NoRegistry

NextLoad ==
    \/ CallerMayCall /\ \E p \in Paths, cb \in Callbacks : LoadCall(p, cb)
    \/ CallerMayCall /\ \E i \in Refs : UnlockCall(i)
    \/ CallerMayCall /\ \E i \in Refs : LockCall(i)
    \/ CallerMayCall /\ \E i \in Refs, c \in Containers : SpawnCall(i, c)
    \/ CallerMayCall /\ \E i \in Refs : SyncCall(i)
    \/ \E i \in Refs : Deliver(i)

FairLoadSpec ==
    /\ InitLoad
    /\ [][NextLoad]_vars
    /\ \A i \in 1..MaxLoadSteps : WF_vars(Deliver(i))

(***************************************************************************)
(* The loads of images that are wider than the widest resource create      *)
(* accepts.                                                                *)
(***************************************************************************)
\* <<img.width, img.height>>: one pixel, and one more than 8192 wide
(***************************************************************************)
(* Calls of the caller on a resource whose load is pending or has ended,   *)
(* and on a created one: one size, one path, one colour, more steps.       *)
(***************************************************************************)
InitPending ==
    /\ host \in GetContextResults
    /\ count = 0
    /\ resources = <<>>
    /\ imgs = <<>>
    /\ cbLog = <<>>
    /\ now = 1
    /\ ret = RetNull
    /\ last = Call("none", 0, <<>>)
    /\ steps = MaxPendingSteps
    /\ methods = {}
    /\ registry = NoRegistry

NextPending ==
    \/ CreateCall(Num(1), Num(1))
    \/ LoadCall("a.png", "fn")
    \/ \E i \in Refs, ok \in BOOLEAN : LoadEvent(i, <<2, 1>>, ok)
    \/ \E i \in Refs : ErrorEvent(i)
    \/ \E i \in Refs, c \in Containers : SpawnCall(i, c)
    \/ \E i \in Refs : DespawnCall(i)
    \/ \E i \in Refs : LockCall(i)
    \/ \E i \in Refs : UnlockCall(i)
    \/ \E i \in Refs : SyncCall(i)
    \/ \E i \in Refs : SetColorCall(i, Num(0), Num(0), <<10, 20, 30>>)
    \/ \E i \in Refs : SetAlphaCall(i, Num(0), Num(0), 7)
    \/ \E i \in Refs : ClearCall(i, <<1, 2, 3>>)

PendingSpec == InitPending /\ [][NextPending]_vars

WideImageSizes == {<<1, 1>>, <<MaxDim + 1, 1>>}

InitWide ==
    /\ host \in GetContextResults
    /\ count = 0
    /\ resources = <<>>
    /\ imgs = <<>>
    /\ cbLog = <<>>
    /\ now = 1
    /\ ret = RetNull
    /\ last = Call("none", 0, <<>>)
    /\ steps = MaxWideSteps
    /\ methods = {}
    /\ registry = NoRegistry

NextWide ==
    \/ \E p \in Paths, cb \in Callbacks : LoadCall(p, cb)
    \/ \E i \in Refs, s \in WideImageSizes, ok \in BOOLEAN : LoadEvent(i, s, ok)
    \/ \E i \in Refs : ErrorEvent(i)
    \/ \E i \in Refs : UnlockCall(i)

WideLoadSpec == InitWide /\ [][NextWide]_vars

(***************************************************************************)
(* The Framebuffer class (src/framebuffer.js, version 20250330): its       *)
(* factory, lock and unlock and its asynchronous image load.               *)
(***************************************************************************)
\* canvas = null, the field's initial value
NullCanvas == [tag |-> "null"]

\* Object.assign({}, Framebuffer.resource) with fb.id = Framebuffer.count++
Framebuffer_resource(cnt) ==
    [id |-> cnt, width |-> 0, height |-> 0, context |-> NULL,
     image |-> NullImage, created |-> 0, updated |-> 0, path |-> NULL,
     ready |-> TRUE, locked |-> FALSE, dirty |-> FALSE, error |-> NULL,
     container |-> NULL, spawned |-> FALSE, canvas |-> NullCanvas]

Framebuffer_sync(this, t) ==
    [this EXCEPT !.canvas = putImageData(@, this.image),
                 !.dirty = FALSE,
                 !.updated = t]

Framebuffer_create(w, h, cnt, t, getContext) ==
    LET width  == ToInt32(w)
        height == ToInt32(h)
        fb     == Framebuffer_resource(cnt)
    IN  IF 0 >= width \/ width > MaxDim THEN [fb EXCEPT !.error = "bad width"]
        ELSE IF 0 >= height \/ height > MaxDim
        THEN [fb EXCEPT !.error = "bad height"]
        ELSE LET f1 == [fb EXCEPT !.created = t,
                                  !.width = width,
                                  !.height = height,
                                  !.canvas = Canvas(width, height),
                                  !.context = getContext]
             IN  IF f1.context = NULL
                 THEN [f1 EXCEPT !.error = "canvas not supported"]
                 ELSE Framebuffer_sync(
                          [f1 EXCEPT !.image =
                              [ImageData(width, height) EXCEPT
                                  !.data = Fill(width * height * 4, White)]], t)

Framebuffer_lock(this) == [this EXCEPT !.locked = TRUE]

Framebuffer_unlock(this) == [this EXCEPT !.locked = FALSE]

\* let fb = Framebuffer.create().lock(); fb.ready = false; fb.path = path
Framebuffer_load(path, cnt, t, getContext) ==
    [Framebuffer_lock(Framebuffer_create(Num(1), Num(1), cnt, t, getContext))
        EXCEPT !.ready = FALSE, !.path = path]

\* img.onload: the resource it leaves and whether callback(fb) ran.  It
\* throws at drawImage when fb.context is null and at getImageData when
\* that throws (getImageDataOk false): nothing catches either
Framebuffer_onload(fb, width, height, getImageDataOk) ==
    LET f1 == [fb EXCEPT !.ready = TRUE,
                         !.canvas.width = width,
                         !.canvas.height = height,
                         !.canvas.bitmap = IF fb.context = NULL
                                           THEN Fill(width * height * 4, 0)
                                           ELSE decoded(width, height),
                         !.width = width,
                         !.height = height]
    IN  IF fb.context = NULL \/ ~getImageDataOk
        THEN [fb |-> f1, called |-> FALSE, thrown |-> TRUE]
        ELSE [fb |-> Framebuffer_unlock([f1 EXCEPT !.image =
                               [tag |-> "ImageData", width |-> width,
                                height |-> height, data |-> f1.canvas.bitmap]]),
              called |-> TRUE, thrown |-> FALSE]

\* img.onerror
Framebuffer_onerror(fb) == [fb EXCEPT !.error = "failed to load image"]

\* spawn(container = null): the container is tested before anything else,
\* and container.append(this.canvas) runs whatever this.canvas is
Framebuffer_spawn(this, container) ==
    IF container = NULL \/ container \notin Elements
    THEN [this EXCEPT !.error = "expects container to be an element"]
    ELSE IF this.container # NULL
    THEN [this EXCEPT !.error = "resource already spawned"]
    ELSE [this EXCEPT !.canvas = IF @ = NullCanvas THEN @
                                 ELSE [@ EXCEPT !.parentElement = container],
                      !.container = container,
                      !.spawned = TRUE]

\* a method name passed by the caller: its typeof and its text
Str(v) == [type |-> "string", value |-> v]
NotStr(v) == [type |-> "number", value |-> v]

\* typeof body === 'function'
Fn == "function"

\* name in Framebuffer: the static members of the class and of every function
Framebuffer_static ==
    {"version", "resource", "count", "contextAttributes", "methods",
     "create", "load", "defineMethod", "deleteMethod", "hasMethod",
     "name", "length", "prototype", "call", "apply", "bind"}

\* name in Framebuffer.prototype: the methods of the class, those of
\* Object.prototype, and the custom methods defined so far
Framebuffer_prototype(ms) ==
    {"constructor", "sync", "setColor", "getColor", "setAlpha", "getAlpha",
     "spawn", "despawn", "clear", "save", "lock", "unlock", "clone",
     "getChannel", "toString", "valueOf", "hasOwnProperty"} \cup ms

\* Framebuffer.hasMethod(name)
hasMethod(ms, name) ==
    /\ name.type = "string"
    /\ name.value \in ms
    /\ name.value \in Framebuffer_prototype(ms)

\* the 'reserved name' test of defineMethod
reserved(ms, name) ==
    \/ name.value \in Framebuffer_static
    \/ name.value \in Framebuffer_prototype(ms)
    \/ name.value \in DOMAIN Framebuffer_resource(0)

\* defineMethod without the 'duplicate method' test
defineMethod_noDuplicateTest(ms, name, body) ==
    IF name.type # "string"
    THEN [methods |-> ms, thrown |-> <<"specify name (string)">>]
    ELSE IF reserved(ms, name)
    THEN [methods |-> ms, thrown |-> <<"reserved name: ", name.value>>]
    ELSE IF body # Fn
    THEN [methods |-> ms, thrown |-> <<"specify body (function)">>]
    ELSE [methods |-> ms \cup {name.value}, thrown |-> <<>>]

\* Framebuffer.defineMethod(name, body = null): the set of custom methods it
\* leaves and the string it throws (<<>>: it returns the class)
defineMethod(ms, name, body) ==
    IF name.type # "string"
    THEN [methods |-> ms, thrown |-> <<"specify name (string)">>]
    ELSE IF hasMethod(ms, name)
    THEN [methods |-> ms, thrown |-> <<"duplicate method: ", name.value>>]
    ELSE IF reserved(ms, name)
    THEN [methods |-> ms, thrown |-> <<"reserved name: ", name.value>>]
    ELSE IF body # Fn
    THEN [methods |-> ms, thrown |-> <<"specify body (function)">>]
    ELSE [methods |-> ms \cup {name.value}, thrown |-> <<>>]

\* Framebuffer.deleteMethod(name)
deleteMethod(ms, name) ==
    IF hasMethod(ms, name) THEN ms \ {name.value} ELSE ms

\* a thrown string, and the class returned by a static method
RetThrown(msg) == [kind |-> "throw", ref |-> 0, val |-> msg]
RetClass == [kind |-> "class", ref |-> 0, val |-> <<>>]

MethodNames ==
    {Str("blur"), Str("clone"), Str("count"), Str("width"), NotStr("7")}
Bodies == {Fn, NULL}

FbSpawnCall(i, container) ==
    /\ Method("spawn", i, <<container>>, FALSE,
              Framebuffer_spawn(resources[i], container))
    /\ UNCHANGED now

FbDefineMethodCall(name, body) ==
    LET r == defineMethod(methods, name, body)
    IN  /\ Advance("defineMethod", 0, <<name, body>>)
        /\ methods' = r.methods
        /\ ret' = IF r.thrown = <<>> THEN RetClass ELSE RetThrown(r.thrown)
        /\ UNCHANGED <<count, resources, imgs, cbLog, now>>

FbDeleteMethodCall(name) ==
    /\ Advance("deleteMethod", 0, <<name>>)
    /\ methods' = deleteMethod(methods, name)
    /\ ret' = RetClass
    /\ UNCHANGED <<count, resources, imgs, cbLog, now>>

FbHasMethodCall(name) ==
    /\ Step("hasMethod", 0, <<name>>)
    /\ ret' = RetVal(hasMethod(methods, name))
    /\ UNCHANGED <<count, resources, imgs, cbLog, now>>

FbCreateCall(w, h) ==
    /\ Step("create", 0, <<w, h>>)
    /\ Make(Framebuffer_create(w, h, count, now, host), NoImg)
    /\ ret' = RetRef(Len(resources) + 1)

FbLoadCall(path, callback) ==
    /\ Step("load", 0, <<path, callback>>)
    /\ IF path = NULL
       THEN /\ ret' = RetNull
            /\ UNCHANGED <<count, resources, imgs, cbLog, now>>
       ELSE /\ Make(Framebuffer_load(path, count, now, host),
                    [state |-> "pending", callback |-> defaultCallback(callback)])
            /\ ret' = RetRef(Len(resources) + 1)

FbLoadEvent(i, size, getImageDataOk) ==
    /\ Step("onload", i, <<size, getImageDataOk>>)
    /\ imgs[i].state = "pending"
    /\ LET r == Framebuffer_onload(resources[i], size[1], size[2], getImageDataOk)
       IN  /\ resources' = [resources EXCEPT ![i] = r.fb]
           /\ cbLog' = IF r.called THEN Append(cbLog, Called(i, r.fb)) ELSE cbLog
           /\ ret' = IF r.thrown THEN RetThrow ELSE RetEvent
    /\ imgs' = [imgs EXCEPT ![i].state = "loaded"]
    /\ UNCHANGED <<count, now>>

FbErrorEvent(i) ==
    /\ Step("onerror", i, <<>>)
    /\ imgs[i].state = "pending"
    /\ resources' = [resources EXCEPT ![i] = Framebuffer_onerror(@)]
    /\ cbLog' = Append(cbLog, Called(i, Framebuffer_onerror(resources[i])))
    /\ imgs' = [imgs EXCEPT ![i].state = "failed"]
    /\ ret' = RetEvent
    /\ UNCHANGED <<count, now>>

FbLockCall(i) ==
    /\ Method("lock", i, <<>>, FALSE, Framebuffer_lock(resources[i]))
    /\ UNCHANGED now

FbUnlockCall(i) ==
    /\ Method("unlock", i, <<>>, FALSE, Framebuffer_unlock(resources[i]))
    /\ UNCHANGED now

InitFb ==
    /\ host \in GetContextResults
    /\ count = 0
    /\ resources = <<>>
    /\ imgs = <<>>
    /\ cbLog = <<>>
    /\ now = 1
    /\ ret = RetNull
    /\ last = Call("none", 0, <<>>)
    /\ steps = MaxFbSteps
    /\ methods = {}
    /\ registry = NoRegistry

NextFb ==
    \/ \E s \in LifeSizes : FbCreateCall(s[1], s[2])
    \/ \E p \in Paths, cb \in Callbacks : FbLoadCall(p, cb)
    \/ \E i \in Refs, s \in ImageSizes, ok \in BOOLEAN : FbLoadEvent(i, s, ok)
    \/ \E i \in Refs : FbErrorEvent(i)
    \/ \E i \in Refs : FbLockCall(i)
    \/ \E i \in Refs : FbUnlockCall(i)
    \/ \E i \in Refs, c \in Containers : FbSpawnCall(i, c)
    \/ \E n \in MethodNames, b \in Bodies : FbDefineMethodCall(n, b)
    \/ \E n \in MethodNames : FbDeleteMethodCall(n)
    \/ \E n \in MethodNames : FbHasMethodCall(n)

FramebufferSpec == InitFb /\ [][NextFb]_vars

(***************************************************************************)
(* The Framebuffer class of src/unnamed/part_001, whose create stores the  *)
(* new resource in Framebuffer.resources before it validates.              *)
(***************************************************************************)
\* Framebuffer.resources[id] = fb: a TypeError when the registry is undefined
registerThrows(reg) == ~reg.defined

register(reg, id, fb) == [reg EXCEPT !.at = [k \in DOMAIN @ \cup {id + 1} |->
                                               IF k = id + 1 THEN fb ELSE @[k]]]

\* create: let id = Framebuffer.count++, the store in the registry, then
\* the validation and construction of Framebuffer.create
RegCreateCall(w, h) ==
    /\ steps > 0
    /\ steps' = steps - 1
    /\ last' = Call("create", 0, <<w, h>>)
    /\ UNCHANGED <<host, methods>>
    /\ IF registerThrows(registry)
       THEN /\ count' = nextCount(count)
            /\ ret' = RetThrow
            /\ UNCHANGED <<resources, imgs, cbLog, now, registry>>
       ELSE /\ Make(Framebuffer_create(w, h, count, now, host), NoImg)
            /\ registry' = register(registry, count,
                                    Framebuffer_create(w, h, count, now, host))
            /\ ret' = RetRef(Len(resources) + 1)

\* load: null for a null path, else Framebuffer.create().lock() and the rest
RegLoadCall(path, callback) ==
    /\ steps > 0
    /\ steps' = steps - 1
    /\ last' = Call("load", 0, <<path, callback>>)
    /\ UNCHANGED <<host, methods>>
    /\ IF path = NULL
       THEN /\ ret' = RetNull
            /\ UNCHANGED <<count, resources, imgs, cbLog, now, registry>>
       ELSE IF registerThrows(registry)
       THEN /\ count' = nextCount(count)
            /\ ret' = RetThrow
            /\ UNCHANGED <<resources, imgs, cbLog, now, registry>>
       ELSE /\ Make(Framebuffer_load(path, count, now, host),
                    [state |-> "pending", callback |-> defaultCallback(callback)])
            /\ registry' = register(registry, count,
                                    Framebuffer_create(Num(1), Num(1), count, now, host))
            /\ ret' = RetRef(Len(resources) + 1)

InitRegistry ==
    /\ host \in GetContextResults
    /\ count = 0
    /\ resources = <<>>
    /\ imgs = <<>>
    /\ cbLog = <<>>
    /\ now = 1
    /\ ret = RetNull
    /\ last = Call("none", 0, <<>>)
    /\ steps = MaxRegistrySteps
    /\ methods = {}
    /\ registry = NoRegistry

NextRegistry ==
    \/ \E s \in Sizes : RegCreateCall(s[1], s[2])
    \/ \E p \in Paths, cb \in Callbacks : RegLoadCall(p, cb)

RegistrySpec == InitRegistry /\ [][NextRegistry]_vars

(***************************************************************************)
(* Notions the properties are stated with.                                 *)
(***************************************************************************)
\* the truncation toward zero of n lies in 1..8192
TruncInRange(n) == n.hi = 0 /\ n.lo >= 1 /\ n.lo <= MaxDim

\* the truncation toward zero of a number within the 32-bit range
Trunc(n) ==
    IF n.hi < 0 /\ n.tenths # 0 THEN n.hi * Limb + n.lo + 1
    ELSE n.hi * Limb + n.lo

\* errors set by the operation that made the resource (create or load)
CreationErrors ==
    {"bad width", "bad height", "failed to create context",
     "failed to load image", "getImageData failed"}

\* the resource was not faulted by the operation that made it
Usable(r) == r.error \notin CreationErrors

\* (x, y) is a pixel of resource r
InBounds(r, x, y) ==
    /\ x.tenths = 0 /\ x.hi = 0 /\ x.lo < r.width
    /\ y.tenths = 0 /\ y.hi = 0 /\ y.lo < r.height

IsByte(v) == v \in 0..255

\* the resource the last call made
Newest == resources[Len(resources)]

\* the step is a call of one of ops on resource i
Did(ops, i) == last'.op \in ops /\ last'.this = i

\* nothing but resource i changes among the resources
OnlyResource(i) ==
    /\ DOMAIN resources' = DOMAIN resources
    /\ \A j \in DOMAIN resources : j # i => resources'[j] = resources[j]

(***************************************************************************)
(* C1.  create with the width and height (truncated) in 1..8192, on a host *)
(* where the 2D context is obtained, returns a resource with error null,   *)
(* the given width and height, a pixel buffer of width * height * 4 bytes  *)
(* that are all 255, dirty false and updated > 0, the surface holding the  *)
(* buffer (the first synchronisation is done).                             *)
(***************************************************************************)
CreatedValid(r, w, h) ==
    /\ r.error = NULL
    /\ r.width = w /\ r.height = h
    /\ r.image # NullImage
    /\ Len(r.image.data) = w * h * 4
    /\ \A k \in DOMAIN r.image.data : r.image.data[k] = 255
    /\ r.dirty = FALSE
    /\ r.updated > 0
    /\ r.canvas # NoCanvas
    /\ r.canvas.bitmap = r.image.data

C2_CreateInvalid ==
    [][\A s \in Sizes :
         (CreateCall(s[1], s[2])
            /\ ~(TruncInRange(s[1]) /\ TruncInRange(s[2])))
         => /\ ret' = RetRef(Len(resources'))
            /\ Newest'.error # NULL
            /\ Newest'.error = IF TruncInRange(s[1]) THEN "bad height"
                               ELSE "bad width"
            /\ Newest'.image = NullImage
            /\ Newest'.canvas = NoCanvas
            /\ Newest'.context = NULL
            /\ Newest'.id = count
            /\ InInt32(s[1]) => Newest'.width = Trunc(s[1])
            /\ InInt32(s[2]) => Newest'.height = Trunc(s[2])]_vars

(***************************************************************************)
(* C3.  The counter is incremented once for every resource made (by        *)
(* create, load, clone and getChannel, also when validation fails), the    *)
(* new resource gets the counter's value before the call as its id, ids    *)
(* increase strictly in the order of creation and no two resources share   *)
(* one; load(null) makes no resource and leaves the counter alone.         *)
(***************************************************************************)
C3_Ids ==
    [][/\ count' - count = Len(resources') - Len(resources)
       /\ count' = Len(resources')
       /\ \A i \in DOMAIN resources' : i > Len(resources)
             => resources'[i].id = count + (i - Len(resources) - 1)
       /\ \A i, j \in DOMAIN resources' :
             i < j => resources'[i].id < resources'[j].id
       /\ \A cb \in Callbacks : LoadCall(NULL, cb)
             => count' = count /\ resources' = resources /\ ret' = RetNull]_vars

C3_Witness ==
    /\ last = Call("load", 0, <<NULL, "fn">>)
    /\ ret = RetNull
    /\ Len(resources) = 2
    /\ resources[1].error = "bad width"
    /\ resources[2].id = 1
    /\ count = 2

(***************************************************************************)
(* C4.  create with valid dimensions on a host where the 2D context cannot *)
(* be obtained returns a resource with error 'failed to create context'    *)
(* and no pixel buffer, and does not synchronise (updated stays 0 and the  *)
(* surface is not written).                                                *)
(***************************************************************************)
NoContextResult(r, message) ==
    /\ r.error = message
    /\ r.image = NullImage
    /\ r.context = NULL
    /\ r.updated = 0
    /\ r.dirty = FALSE
    /\ r.canvas # NoCanvas
    /\ \A k \in DOMAIN r.canvas.bitmap : r.canvas.bitmap[k] = 0

C5_SetThenGet ==
    [][\A i \in DOMAIN resources :
         LET r == resources[i]
             x == last'.args[1]
             y == last'.args[2]
             v == last'.args[3]
         IN  /\ (Did({"setColor"}, i) /\ ~r.locked /\ Usable(r)
                   /\ InBounds(r, x, y) /\ \A k \in 1..3 : IsByte(v[k]))
                  => /\ SetColorCall(i, x, y, v)
                     /\ ret' = RetRef(i)
                     /\ getColor(resources'[i], x, y) = v
                     /\ resources'[i].dirty
             /\ (Did({"setAlpha"}, i) /\ ~r.locked /\ Usable(r)
                   /\ InBounds(r, x, y) /\ IsByte(v))
                  => /\ SetAlphaCall(i, x, y, v)
                     /\ ret' = RetRef(i)
                     /\ getAlpha(resources'[i], x, y) = v
                     /\ resources'[i].dirty
             /\ (r.dirty /\ ~Did({"sync"}, i)) => resources'[i].dirty
             /\ (Did({"sync"}, i) /\ ret' = RetRef(i)) => ~resources'[i].dirty]_vars

C5_Witness ==
    /\ last.op = "sync"
    /\ ret = RetRef(last.this)
    /\ ~resources[last.this].locked
    /\ ~resources[last.this].dirty
    /\ resources[last.this].height = 2
    /\ getColor(resources[last.this], Num(0), Num(1)) = <<10, 20, 30>>

(***************************************************************************)
(* C6.  On a locked resource setColor, setAlpha and clear return the       *)
(* resource and change nothing: not a byte of the pixel buffer, not dirty, *)
(* not updated, no other field, and nothing else of the state.             *)
(***************************************************************************)
C6_LockedWritesAreNoOps ==
    [][\A i \in DOMAIN resources :
         (resources[i].locked /\ Did({"setColor", "setAlpha", "clear"}, i))
         => /\ ret' = RetRef(i)
            /\ resources' = resources
            /\ count' = count /\ imgs' = imgs /\ cbLog' = cbLog
            /\ now' = now]_vars

C6_Witness ==
    /\ last.op = "clear"
    /\ resources[last.this].locked
    /\ resources[last.this].error = NULL
    /\ resources[last.this].path = NULL
    /\ ret = RetRef(last.this)

(***************************************************************************)
(* C7.  The locked flag blocks none of getColor, getAlpha, sync, spawn,    *)
(* despawn and clone: on a locked resource each returns, or throws, and    *)
(* changes the state exactly as it does on the same resource unlocked      *)
(* (the flag itself stays set).                                            *)
(***************************************************************************)
C7_LockedBlocksNothingElse ==
    [][\A i \in DOMAIN resources :
         LET r == resources[i]
             u == unlock(resources[i])
         IN  r.locked =>
             /\ Did({"getColor"}, i) =>
                  /\ resources' = resources
                  /\ ret' = IF getThrows(u) THEN RetThrow
                            ELSE RetVal(getColor(u, last'.args[1], last'.args[2]))
             /\ Did({"getAlpha"}, i) =>
                  /\ resources' = resources
                  /\ ret' = IF getThrows(u) THEN RetThrow
                            ELSE RetVal(<<getAlpha(u, last'.args[1], last'.args[2])>>)
             /\ Did({"sync"}, i) =>
                  IF syncThrows(u) THEN ret' = RetThrow /\ resources' = resources
                  ELSE /\ ret' = RetRef(i)
                       /\ resources'[i] = lock(sync(u, now))
                       /\ OnlyResource(i)
             /\ Did({"spawn"}, i) =>
                  /\ ret' = RetRef(i)
                  /\ resources'[i] = lock(spawn(u, last'.args[1]))
                  /\ OnlyResource(i)
             /\ Did({"despawn"}, i) =>
                  /\ ret' = RetRef(i)
                  /\ resources'[i] = lock(despawn(u))
                  /\ OnlyResource(i)
             /\ Did({"clone"}, i) =>
                  LET made == clone(u, count, now, host)
                  IN  /\ ret' = IF made.thrown THEN RetThrow
                                ELSE RetRef(Len(resources'))
                      /\ resources' = Append(resources, made.ci)]_vars

C7_Witness ==
    /\ last.op = "sync"
    /\ resources[last.this].locked
    /\ resources[last.this].path = NULL
    /\ ret = RetRef(last.this)
    /\ resources[last.this].updated = now - 1
    /\ resources[last.this].updated > resources[last.this].created

C9_SyncPushesBuffer ==
    [][\A i \in DOMAIN resources :
         LET r == resources[i]
         IN  /\ (Did({"sync"}, i) /\ Usable(r))
                  => /\ ret' = RetRef(i)
                     /\ resources'[i].canvas.bitmap = r.image.data
                     /\ resources'[i].image = r.image
                     /\ resources'[i].dirty = FALSE
                     /\ resources'[i].updated = now
                     /\ resources'[i].updated > r.updated
                     /\ OnlyResource(i)
             /\ last'.op \in {"setColor", "setAlpha", "clear"}
                  => resources'[i].canvas = r.canvas
             /\ resources'[i].canvas # r.canvas
                  => Did({"sync", "onload", "spawn", "despawn", "detach"}, i)
             /\ (r.canvas # NoCanvas /\ resources'[i].canvas.bitmap # r.canvas.bitmap)
                  => Did({"sync", "onload"}, i)]_vars

C9_Witness ==
    /\ last.op = "sync"
    /\ ret = RetRef(last.this)
    /\ resources[last.this].canvas.bitmap = resources[last.this].image.data
    /\ getColor(resources[last.this], Num(1), Num(0)) = <<10, 20, 30>>
    /\ resources[last.this].updated = now - 1

(***************************************************************************)
(* C10.  spawn(container) on a resource with no error that is not spawned, *)
(* with an element as the container, attaches the canvas to it, sets       *)
(* spawned and records the container, and changes nothing else; spawn with *)
(* a container that is no element, or on a resource that is spawned,       *)
(* leaves the resource with an error and changes nothing but error, so the *)
(* container, spawned and the canvas's parent of the first spawn stay.     *)
(***************************************************************************)
C10_Spawn ==
    [][\A i \in DOMAIN resources, c \in Containers :
         LET r == resources[i]
         IN  SpawnCall(i, c) =>
             /\ ret' = RetRef(i)
             /\ OnlyResource(i)
             /\ (r.error = NULL /\ ~r.spawned /\ c \in Elements)
                  => resources'[i] = [r EXCEPT !.canvas.parentElement = c,
                                               !.container = c,
                                               !.spawned = TRUE]
             /\ (c \notin Elements \/ r.spawned)
                  => /\ resources'[i].error # NULL
                     /\ resources'[i] = [r EXCEPT !.error = resources'[i].error]
                     /\ r.error = NULL
                          => resources'[i].error =
                                IF c \notin Elements THEN "container not element"
                                ELSE "resource already spawned"]_vars

C10_Witness ==
    /\ last = Call("spawn", last.this, <<"div2">>)
    /\ resources[last.this].error = "resource already spawned"
    /\ resources[last.this].spawned
    /\ resources[last.this].container = "div1"
    /\ resources[last.this].canvas.parentElement = "div1"

(***************************************************************************)
(* C11.  despawn on a spawned resource whose canvas is attached detaches   *)
(* the canvas and sets spawned false and container null, changing nothing  *)
(* else; despawn on a resource that is not spawned, or whose canvas is     *)
(* attached to no element, changes nothing; and after a despawn a resource *)
(* that has no error is spawned by spawn into any element.                 *)
(***************************************************************************)
C11_SpawnDespawn ==
    [][\A i \in DOMAIN resources :
         LET r == resources[i]
         IN  Did({"despawn"}, i) =>
             /\ DespawnCall(i)
             /\ ret' = RetRef(i)
             /\ OnlyResource(i)
             /\ ~resources'[i].spawned =>
                   /\ resources'[i].container = NULL
                   /\ r.error = NULL =>
                        \A c \in Elements :
                           spawn(resources'[i], c) =
                              [resources'[i] EXCEPT !.canvas.parentElement = c,
                                                    !.container = c,
                                                    !.spawned = TRUE]
             /\ IF r.spawned
                THEN IF r.canvas.parentElement # NULL
                     THEN resources'[i] = [r EXCEPT !.canvas.parentElement = NULL,
                                                    !.container = NULL,
                                                    !.spawned = FALSE]
                     ELSE resources'[i] = r
                ELSE resources'[i] = r]_vars

\* the fourth call, a spawn into another element, has spawned the resource
\* that calls of spawn and despawn were made on before
C11_Witness ==
    /\ steps = MaxLifeSteps - 4
    /\ Len(resources) = 1
    /\ last = Call("spawn", 1, <<"div2">>)
    /\ resources[1].spawned
    /\ resources[1].container = "div2"
    /\ resources[1].canvas.parentElement = "div2"
    /\ resources[1].error = NULL

(***************************************************************************)
(* C12.  load with a path that is not null returns a new 1x1 resource that *)
(* is locked, not ready and has the path, its image pending and no         *)
(* callback invoked by the call; while the image of a resource is pending  *)
(* the resource is not ready and its callback has not been invoked, and it *)
(* stays locked in every step that is not an unlock of it or its load      *)
(* event; a callback is invoked only in a load or error event.             *)
(***************************************************************************)
Invocations(log, i) == {k \in DOMAIN log : log[k].ref = i}

C12_LoadReturnsLockedDummy ==
    [][/\ \A p \in Paths \ {NULL}, cb \in Callbacks :
            LoadCall(p, cb) =>
               /\ Len(resources') = Len(resources) + 1
               /\ ret' = RetRef(Len(resources'))
               /\ Newest'.width = 1 /\ Newest'.height = 1
               /\ Newest'.locked
               /\ ~Newest'.ready
               /\ Newest'.path = p
               /\ Newest'.image # NullImage => Len(Newest'.image.data) = 4
               /\ imgs'[Len(resources')].state = "pending"
               /\ cbLog' = cbLog
       /\ \A i \in DOMAIN resources :
            imgs[i].state = "pending" =>
               /\ ~resources[i].ready
               /\ Invocations(cbLog, i) = {}
               /\ (resources[i].locked /\ ~Did({"unlock", "onload"}, i))
                     => resources'[i].locked
               /\ ~Did({"onload"}, i) => ~resources'[i].ready
       /\ cbLog' # cbLog => last'.op \in {"onload", "onerror"}]_vars

\* the caller reads a pixel of a resource whose load is pending
C12_Witness ==
    /\ last.op = "getColor"
    /\ imgs[last.this].state = "pending"
    /\ resources[last.this].path = "a.png"
    /\ resources[last.this].locked
    /\ ~resources[last.this].ready
    /\ ret = RetVal(<<255, 255, 255>>)
    /\ cbLog = <<>>

(***************************************************************************)
(* C13.  In a load event whose pixels are read back, the callback, when it *)
(* is invoked, is invoked once, with the resource load returned, which is  *)
(* then ready and unlocked, has the width and height of the decoded image  *)
(* and a pixel buffer of width * height * 4 bytes equal to the pixels of   *)
(* the surface, the decoded image; and it is invoked where the resource    *)
(* has a context.                                                          *)
(***************************************************************************)
C13_LoadSuccess ==
    [][\A i \in DOMAIN resources :
         (Did({"onload"}, i) /\ last'.args[2]) =>
            LET w == last'.args[1][1]
                h == last'.args[1][2]
                c == resources'[i]
            IN  /\ resources[i].context # NULL => cbLog' # cbLog
                /\ cbLog' # cbLog =>
                      /\ cbLog' = Append(cbLog, [ref |-> i,
                                                 callback |-> imgs[i].callback,
                                                 ci |-> c])
                      /\ c.id = resources[i].id
                      /\ c.ready
                      /\ ~c.locked
                      /\ c.width = w /\ c.height = h
                      /\ c.image # NullImage
                      /\ c.image.width = w /\ c.image.height = h
                      /\ Len(c.image.data) = w * h * 4
                      /\ c.image.data = c.canvas.bitmap
                      /\ c.image.data = decoded(w, h)]_vars

C13_Witness ==
    /\ last = Call("onload", 1, <<(<<1, 2>>), TRUE>>)
    /\ Len(cbLog) = 1
    /\ cbLog[1].ref = 1
    /\ cbLog[1].callback = "fn"
    /\ cbLog[1].ci = resources[1]
    /\ resources[1].ready
    /\ ~resources[1].locked
    /\ resources[1].height = 2
    /\ Len(resources[1].image.data) = 8

(***************************************************************************)
(* C14.  In an error event the resource gets the error 'failed to load     *)
(* image' and nothing else of it changes: ready stays false, locked stays  *)
(* as it is (true, unless the caller unlocked the resource), the width and *)
(* height stay 1 and the pixel buffer stays what it is; the callback is    *)
(* invoked once, with the resource.                                        *)
(***************************************************************************)
C14_LoadError ==
    [][\A i \in DOMAIN resources :
         Did({"onerror"}, i) =>
            LET r == resources[i]
                c == resources'[i]
            IN  /\ c = [r EXCEPT !.error = "failed to load image"]
                /\ cbLog' = Append(cbLog, [ref |-> i,
                                           callback |-> imgs[i].callback,
                                           ci |-> c])
                /\ ~c.ready
                /\ r.locked => c.locked
                /\ c.width = 1 /\ c.height = 1
                /\ c.image = r.image
                /\ c.image # NullImage => Len(c.image.data) = 4
                /\ OnlyResource(i)]_vars

C14_Witness ==
    /\ last = Call("onerror", 1, <<>>)
    /\ resources[1].error = "failed to load image"
    /\ resources[1].locked
    /\ ~resources[1].ready
    /\ resources[1].image = filledImage(1, 1)
    /\ Len(cbLog) = 1
    /\ cbLog[1].ci = resources[1]
    /\ cbLog[1].callback = "fn"

(***************************************************************************)
(* C15.  In a load event whose read-back of the pixels fails (the context  *)
(* exists, getImageData throws), the resource is left not ready, with the  *)
(* failure's message as its error and locked as it was, and the callback   *)
(* is invoked with the resource, once.                                     *)
(***************************************************************************)
C15_ReadBackFailure ==
    [][\A i \in DOMAIN resources :
         (Did({"onload"}, i) /\ ~last'.args[2] /\ resources[i].context # NULL)
         => LET r == resources[i]
                c == resources'[i]
            IN  /\ ~c.ready
                /\ c.error # NULL
                /\ c.locked = r.locked
                /\ cbLog' = Append(cbLog, [ref |-> i,
                                           callback |-> imgs[i].callback,
                                           ci |-> c])
                /\ Cardinality(Invocations(cbLog', i)) = 1]_vars

(***************************************************************************)
(* C16.  load with a null path returns null and changes nothing: it makes  *)
(* no resource and no Image, so no callback is ever invoked for it (every  *)
(* invocation is for an Image a load made, whose event was delivered, and  *)
(* there is at most one for each).  load with a path makes the same        *)
(* resource whatever the callback is, and the handlers call the caller's   *)
(* function when it is one and a no-op otherwise.                          *)
(***************************************************************************)
C16_LoadNullAndDefaultCallback ==
    [][/\ \A cb \in Callbacks :
            LoadCall(NULL, cb) =>
               /\ ret' = RetNull
               /\ UNCHANGED <<count, resources, imgs, cbLog, now>>
       /\ \A k \in DOMAIN cbLog' :
            /\ cbLog'[k].ref \in DOMAIN imgs'
            /\ imgs'[cbLog'[k].ref].state \in {"loaded", "failed"}
            /\ Invocations(cbLog', cbLog'[k].ref) = {k}
       /\ \A p \in Paths \ {NULL}, cb \in Callbacks :
            LoadCall(p, cb) =>
               /\ Newest' = load(p, count, now, host)
               /\ imgs'[Len(imgs')] =
                     [state |-> "pending",
                      callback |-> IF cb = "fn" THEN "fn" ELSE "noop"]
               /\ ret' = RetRef(Len(resources'))]_vars

\* a load without a function was made and its event delivered to the
\* no-op, and then load(null, fn) returned null
C16_Witness ==
    /\ last = Call("load", 0, <<NULL, "fn">>)
    /\ ret = RetNull
    /\ Len(resources) = 1
    /\ Len(imgs) = 1
    /\ imgs[1] = [state |-> "loaded", callback |-> "noop"]
    /\ Len(cbLog) = 1
    /\ cbLog[1].callback = "noop"
    /\ resources[1].ready

(***************************************************************************)
(* C17.  With a fair image source, every load made with a path leads to    *)
(* the invocation of its callback, and no load's callback is ever invoked  *)
(* twice.                                                                  *)
(***************************************************************************)
C17_CallbackExactlyOnce ==
    /\ \A i \in 1..MaxLoadSteps :
          (i \in DOMAIN imgs /\ imgs[i].state = "pending")
             ~> (Invocations(cbLog, i) # {})
    /\ [](\A i \in DOMAIN imgs : Cardinality(Invocations(cbLog, i)) <= 1)

(***************************************************************************)
(* C18.  clone of a resource that the operation that made it did not fault *)
(* returns a new resource with the source's width and height, every byte   *)
(* of the pixel buffer equal to the source's, an id no other resource has, *)
(* dirty false with the surface holding the buffer, and unlocked also when *)
(* the source is locked; clone changes no field of the source or of any    *)
(* other resource, and every later call or event on one resource leaves    *)
(* all other resources (the clone's buffer, the source's buffer) as they   *)
(* are.                                                                    *)
(***************************************************************************)
C18_Clone ==
    [][\A i \in DOMAIN resources :
         LET r == resources[i]
             n == Newest'
         IN  /\ (Did({"clone"}, i) /\ Usable(r))
                  => /\ Len(resources') = Len(resources) + 1
                     /\ ret' = RetRef(Len(resources'))
                     /\ n.width = r.width /\ n.height = r.height
                     /\ n.image # NullImage
                     /\ n.image.data = r.image.data
                     /\ Len(n.image.data) = n.width * n.height * 4
                     /\ \A j \in DOMAIN resources : resources[j].id # n.id
                     /\ ~n.dirty
                     /\ n.canvas.bitmap = n.image.data
                     /\ n.updated >= now
                     /\ ~n.locked
                     /\ n.error = NULL
                     /\ \A j \in DOMAIN resources : resources'[j] = resources[j]
             /\ last'.this # i => resources'[i] = r]_vars

\* a source with a written pixel that is not synchronised, and its clone
C18_Witness ==
    /\ last = Call("clone", 1, <<>>)
    /\ ret = RetRef(2)
    /\ resources[1].dirty
    /\ getColor(resources[1], Num(1), Num(0)) = <<10, 20, 30>>
    /\ getAlpha(resources[2], Num(0), Num(0)) = 255
    /\ resources[2].image.data = resources[1].image.data
    /\ ~resources[2].dirty
    /\ resources[2].id = 1

(***************************************************************************)
(* C19.  For every channel argument c, getChannel(c) on a resource that    *)
(* the operation that made it did not fault returns a new resource of the  *)
(* same width and height in which, at every pixel, red, green and blue are *)
(* the source's byte in channel clamp(trunc(c), 0, 3) and alpha is 255,    *)
(* with dirty false and the surface holding the buffer, and changes no     *)
(* resource there was.                                                     *)
(***************************************************************************)
\* clamp(trunc(n), 0, 3)
ClampTrunc(n) ==
    IF n.hi < 0 THEN 0
    ELSE IF n.hi > 0 THEN 3
    ELSE IF n.lo > 3 THEN 3 ELSE n.lo

C19_GetChannel ==
    [][\A i \in DOMAIN resources :
         LET r  == resources[i]
             n  == Newest'
             ch == ClampTrunc(last'.args[1])
         IN  (Did({"getChannel"}, i) /\ Usable(r))
             => /\ Len(resources') = Len(resources) + 1
                /\ ret' = RetRef(Len(resources'))
                /\ n.width = r.width /\ n.height = r.height
                /\ n.image # NullImage
                /\ Len(n.image.data) = Len(r.image.data)
                /\ \A px \in 0..(r.width * r.height - 1) :
                      /\ \A k \in 1..3 :
                            n.image.data[px * 4 + k] = r.image.data[px * 4 + ch + 1]
                      /\ n.image.data[px * 4 + 4] = 255
                /\ ~n.dirty
                /\ n.canvas.bitmap = n.image.data
                /\ \A j \in DOMAIN resources : resources'[j] = resources[j]]_vars

C21_LockUnlock ==
    [][\A i \in DOMAIN resources :
         LET r == resources[i]
         IN  /\ Did({"lock"}, i) =>
                  /\ ret' = RetRef(i)
                  /\ resources'[i] = [r EXCEPT !.locked = TRUE]
                  /\ OnlyResource(i)
                  /\ r.locked => resources' = resources
             /\ Did({"unlock"}, i) =>
                  /\ ret' = RetRef(i)
                  /\ resources'[i] = [r EXCEPT !.locked = FALSE]
                  /\ OnlyResource(i)
                  /\ ~r.locked => resources' = resources
             /\ Did({"lock", "unlock"}, i) =>
                  /\ count' = count /\ imgs' = imgs /\ cbLog' = cbLog
                  /\ now' = now]_vars

\* lock() on the resource load returned, which load has locked
C21_Witness ==
    /\ steps = MaxSteps - 2
    /\ last = Call("lock", 1, <<>>)
    /\ imgs[1].state = "pending"
    /\ resources[1].path = "a.png"
    /\ resources[1].locked
    /\ ~resources[1].ready

(***************************************************************************)
(* C22.  In every reachable state every resource that has a pixel buffer   *)
(* has one of width * height * 4 bytes.                                    *)
(***************************************************************************)
C22_BufferLength ==
    \A i \in DOMAIN resources :
       resources[i].image # NullImage
          => Len(resources[i].image.data) =
                resources[i].width * resources[i].height * 4

(***************************************************************************)
(* C23.  In every reachable state of a resource that the operation that    *)
(* made it did not fault, dirty is true whenever the pixel buffer differs  *)
(* from the pixels of the surface, which are what the last synchronisation *)
(* (or the load's completion) put there.                                   *)
(***************************************************************************)
C23_DirtyIffUnsynced ==
    \A i \in DOMAIN resources :
       (Usable(resources[i])
          /\ resources[i].image.data # resources[i].canvas.bitmap)
       => resources[i].dirty

(***************************************************************************)
(* C24.  In every state spawned is true exactly when container is not      *)
(* null; spawn sets both and despawn clears both in one step, and a step   *)
(* that is not a spawn or despawn of the resource changes neither.         *)
(***************************************************************************)
C24_SpawnedIffContainer ==
    [][\A i \in DOMAIN resources :
         LET r == resources[i]
             c == resources'[i]
         IN  /\ r.spawned <=> r.container # NULL
             /\ c.spawned <=> c.container # NULL
             /\ (c.spawned # r.spawned \/ c.container # r.container)
                  => /\ Did({"spawn", "despawn"}, i)
                     /\ c.spawned # r.spawned
                     /\ c.container # r.container
             /\ (Did({"spawn"}, i) /\ c # r /\ c.error = r.error)
                  => c.spawned /\ c.container = last'.args[1]
             /\ (Did({"despawn"}, i) /\ c # r)
                  => ~c.spawned /\ c.container = NULL]_vars

\* a resource was spawned, a second spawn refused, and despawn has cleared
\* spawned and container
C24_Witness ==
    /\ last = Call("despawn", 1, <<>>)
    /\ resources[1].error = "resource already spawned"
    /\ ~resources[1].spawned
    /\ resources[1].container = NULL
    /\ resources[1].canvas.parentElement = NULL

(***************************************************************************)
(* C25.  After every call of spawn or despawn on a resource, spawned is    *)
(* true exactly when the resource's canvas is attached to an element, also *)
(* when the host has detached the canvas in between.                       *)
(***************************************************************************)
Attached(r) == r.canvas # NoCanvas /\ r.canvas.parentElement # NULL

C25_SpawnedIffAttached ==
    [][\A i \in DOMAIN resources :
         Did({"spawn", "despawn"}, i)
         => (resources'[i].spawned <=> Attached(resources'[i]))]_vars

(***************************************************************************)
(* C26.  In every reachable state every resource with error null has its   *)
(* width and its height in 1..8192, also after the load of an image of any *)
(* dimensions has completed.                                               *)
(***************************************************************************)
C26_DimensionsInRange ==
    \A i \in DOMAIN resources :
       resources[i].error = NULL
          => /\ resources[i].width \in 1..MaxDim
             /\ resources[i].height \in 1..MaxDim

(***************************************************************************)
(* C27.  A load that is pending completes by its load or its error event   *)
(* and nothing follows: once the event is delivered no further event       *)
(* comes and no callback is invoked for the resource; a resource that is   *)
(* ready after it stays ready, one that is not ready stays not ready, and  *)
(* an error, once not null, never becomes null.                            *)
(***************************************************************************)
C27_LoadOutcomesTerminal ==
    [][\A i \in DOMAIN resources :
         LET r == resources[i]
             c == resources'[i]
             done == imgs[i].state \in {"loaded", "failed"}
         IN  /\ imgs[i].state = "pending"
                  => imgs'[i].state \in {"pending", "loaded", "failed"}
             /\ imgs'[i].state # imgs[i].state => Did({"onload", "onerror"}, i)
             /\ done => /\ imgs'[i] = imgs[i]
                        /\ ~Did({"onload", "onerror"}, i)
                        /\ Invocations(cbLog', i) = Invocations(cbLog, i)
                        /\ r.ready => c.ready
                        /\ ~r.ready => ~c.ready
             /\ r.error # NULL => c.error # NULL]_vars

\* spawn on a resource whose load has failed: the error stays, the resource
\* stays not ready and is not spawned
C27_Witness ==
    /\ last = Call("spawn", 1, <<"div1">>)
    /\ imgs[1].state = "failed"
    /\ resources[1].error = "failed to load image"
    /\ ~resources[1].ready
    /\ ~resources[1].spawned
    /\ Len(cbLog) = 1

(***************************************************************************)
(* C28.  In every reachable state a resource that is not ready was made by *)
(* load, and either its load is pending and its callback has not been      *)
(* invoked, or its load has failed (by the error event, or by the failure  *)
(* of the read-back in the load event) and its callback has been invoked   *)
(* with an error.                                                          *)
(***************************************************************************)
C28_NotReadyPendingOrFailed ==
    \A i \in DOMAIN resources :
       ~resources[i].ready =>
          \/ /\ imgs[i].state = "pending"
             /\ Invocations(cbLog, i) = {}
          \/ /\ imgs[i].state = "failed"
             /\ resources[i].error # NULL
             /\ \E k \in Invocations(cbLog, i) : cbLog[k].ci.error # NULL
          \/ /\ imgs[i].state = "loaded"
             /\ resources[i].error # NULL
             /\ \E k \in Invocations(cbLog, i) :
                   cbLog[k].ci.error # NULL /\ ~cbLog[k].ci.ready

\* C28 as stated: not ready only while the load is pending and its callback
\* not invoked
C28_NotReadyOnlyInFlight ==
    \A i \in DOMAIN resources :
       ~resources[i].ready =>
          /\ imgs[i].state = "pending"
          /\ Invocations(cbLog, i) = {}

\* the read-back has failed: the callback was invoked and the resource is
\* not ready
C28_Witness ==
    /\ last.op = "onload"
    /\ ~last.args[2]
    /\ ~resources[last.this].ready
    /\ resources[last.this].error = "getImageData failed"
    /\ Invocations(cbLog, last.this) # {}

(***************************************************************************)
(* C29 (as the specification states it): validation failures are reported  *)
(* through the Resource's error field and never thrown: a create with a    *)
(* bad width or height returns a Resource carrying the error, a spawn with *)
(* a missing or invalid container returns its Resource carrying an error,  *)
(* and a defineMethod with a reserved or duplicate name completes without  *)
(* raising an exception.                                                   *)
(***************************************************************************)
C29_BadDimensions ==
    /\ last'.op = "create"
    /\ LET w == ToInt32(last'.args[1])
           h == ToInt32(last'.args[2])
       IN  0 >= w \/ w > MaxDim \/ 0 >= h \/ h > MaxDim

C29_CreateReports ==
    C29_BadDimensions =>
        /\ ret' = RetRef(Len(resources'))
        /\ resources'[Len(resources')].error \in {"bad width", "bad height"}

C29_SpawnReports ==
    \A i \in Refs :
        Did({"spawn"}, i) /\ last'.args[1] \notin Elements =>
            /\ ret' = RetRef(i)
            /\ resources'[i].error # NULL
            /\ resources'[i].spawned = resources[i].spawned

C29_NameRejected ==
    /\ last'.op = "defineMethod"
    /\ last'.args[1].type = "string"
    /\ reserved(methods, last'.args[1])

C29_ValidationNeverThrown ==
    [][/\ C29_CreateReports
       /\ C29_SpawnReports
       /\ C29_NameRejected => ret'.kind \notin {"throw", "TypeError"}]_vars

(***************************************************************************)
(* C29 (amended): a bad width or height in create and a missing or invalid *)
(* container in spawn are reported through the Resource's error field and  *)
(* never thrown; defineMethod has no Resource to flag and reports by       *)
(* throwing a string: 'specify name (string)', 'duplicate method: NAME',   *)
(* 'reserved name: NAME' or 'specify body (function)', in that order of    *)
(* tests, and then defines nothing; otherwise it records the name and      *)
(* returns the class.  It never touches a Resource.                        *)
(***************************************************************************)
C29_DefineMethodThrows ==
    last'.op = "defineMethod" =>
        LET name == last'.args[1]
            body == last'.args[2]
            msg  == IF name.type # "string" THEN <<"specify name (string)">>
                    ELSE IF name.value \in methods
                    THEN <<"duplicate method: ", name.value>>
                    ELSE IF name.value \in {"clone", "count", "width"}
                    THEN <<"reserved name: ", name.value>>
                    ELSE IF body # Fn THEN <<"specify body (function)">>
                    ELSE <<>>
        IN  /\ resources' = resources
            /\ IF msg = <<>>
               THEN ret' = RetClass /\ methods' = methods \cup {name.value}
               ELSE ret' = RetThrown(msg) /\ methods' = methods

C29_ValidationReporting ==
    [][/\ C29_CreateReports
       /\ C29_SpawnReports
       /\ C29_DefineMethodThrows]_vars

\* defineMethod('blur', f) after 'blur' was defined: the string is thrown
\* and the set of custom methods is what it was
C29_Witness ==
    /\ last.op = "defineMethod"
    /\ ret.kind = "throw"
    /\ ret.val = <<"duplicate method: ", "blur">>
    /\ methods = {"blur"}

(***************************************************************************)
(* C30: a Resource faulted at creation (bad width, bad height or no        *)
(* drawing context) is functionally inert: setColor, setAlpha, clear,      *)
(* sync, clone, getChannel, getColor and getAlpha called on it raise no    *)
(* exception and change no state, so that its id, dimensions and error     *)
(* text stay as they were.                                                 *)
(***************************************************************************)
C30_FaultedAtCreation(r) ==
    r.error \in {"bad width", "bad height", "failed to create context"}

C30_FaultedInert ==
    [][\A i \in Refs :
          /\ C30_FaultedAtCreation(resources[i])
          /\ Did({"setColor", "setAlpha", "clear", "sync", "clone",
                  "getChannel", "getColor", "getAlpha"}, i)
          => /\ ret'.kind # "TypeError"
             /\ resources' = resources
             /\ count' = count]_vars

(***************************************************************************)
(* C31: error is sticky: no operation resets a non-null error to null,     *)
(* and once error is non-null every later spawn returns its Resource       *)
(* without attaching the canvas and without changing spawned, container,   *)
(* error or any other field, even after a despawn and with a valid         *)
(* container.                                                              *)
(***************************************************************************)
C31_ErrorSticky ==
    [][\A i \in Refs :
          resources[i].error # NULL =>
              /\ resources'[i].error # NULL
              /\ Did({"spawn"}, i) =>
                     /\ ret' = RetRef(i)
                     /\ resources'[i] = resources[i]]_vars

\* spawn(div2) of a resource that was spawned, spawned again (the error),
\* and despawned: it has no container and is not attached
C31_Witness ==
    /\ last.op = "spawn"
    /\ last.args[1] \in Elements
    /\ resources[last.this].error = "resource already spawned"
    /\ resources[last.this].container = NULL
    /\ resources[last.this].canvas.parentElement = NULL
    /\ ~resources[last.this].spawned

(***************************************************************************)
(* C32: whenever the load callback is invoked, exactly one of 'ready is    *)
(* true' and 'error is not null' holds for the Resource it receives,       *)
(* whatever the caller did to the pending Resource (lock, unlock, spawn    *)
(* with a valid or an invalid container, despawn, setColor, sync) between  *)
(* the return of load and the completion event.                            *)
(***************************************************************************)
C32_CallbackReadyXorError ==
    [][Len(cbLog') > Len(cbLog) =>
          LET ci == cbLog'[Len(cbLog')].ci
          IN  ci.ready # (ci.error # NULL)]_vars

(***************************************************************************)
(* C33: after a successful load completes, the pixel buffer equals the     *)
(* surface contents, which are the decoded image, and locked is false,     *)
(* whatever the caller did to the pending Resource: an unlock, setColor,   *)
(* setAlpha, clear, sync or lock made while the load was pending has no    *)
(* effect on the final buffer, and a pending lock is overridden.           *)
(***************************************************************************)
C33_Completed(i) ==
    /\ Did({"onload"}, i)
    /\ last'.args[2]
    /\ ret' = RetEvent

C33_LoadOverridesPending ==
    [][\A i \in Refs :
          C33_Completed(i) =>
              LET size == last'.args[1]
                  ci   == resources'[i]
              IN  /\ ci.image.data = decoded(size[1], size[2])
                  /\ ci.image.data = ci.canvas.bitmap
                  /\ ci.image.width = size[1]
                  /\ ci.image.height = size[2]
                  /\ ~ci.locked]_vars

\* the load completed on a resource the caller had unlocked and written
\* to while it was pending (dirty is still set)
C33_Witness ==
    /\ last.op = "onload"
    /\ last.args[2]
    /\ ret = RetEvent
    /\ resources[last.this].dirty
    /\ resources[last.this].image.data = decoded(2, 1)

(***************************************************************************)
(* C34: on an unlocked Resource with in-bounds (x, y), setColor changes    *)
(* only the three R, G, B bytes at offset (width * y + x) * 4 and the      *)
(* dirty flag, and setAlpha changes only the alpha byte at that offset and *)
(* the dirty flag: the other bytes of that pixel, every other pixel,       *)
(* width, height, locked, ready, error, spawned, container, updated and    *)
(* the surface contents are unchanged, as is every other Resource; and     *)
(* distinct in-bounds coordinates never map to overlapping bytes.          *)
(***************************************************************************)
C34_Offset(r, x, y) == (r.width * y.lo + x.lo) * 4

\* the step changes, of resource i, the bytes at the offsets in ks and the
\* dirty flag, and nothing else
C34_ChangesOnly(i, ks) ==
    LET r  == resources[i]
        r2 == resources'[i]
    IN  /\ DOMAIN r2.image.data = DOMAIN r.image.data
        /\ \A k \in DOMAIN r.image.data :
               (k - 1) \notin ks => r2.image.data[k] = r.image.data[k]
        /\ r2 = [r EXCEPT !.image.data = r2.image.data, !.dirty = r2.dirty]
        /\ OnlyResource(i)
        /\ count' = count /\ imgs' = imgs /\ cbLog' = cbLog /\ now' = now

\* the pixels of r lie apart in the buffer, each within it
C34_PixelsDisjoint(r) ==
    \A x1 \in 0..(r.width - 1), y1 \in 0..(r.height - 1),
       x2 \in 0..(r.width - 1), y2 \in 0..(r.height - 1) :
        LET p1 == pos(r, Num(x1), Num(y1))
            p2 == pos(r, Num(x2), Num(y2))
        IN  /\ p1 >= 0 /\ p1 + 3 < Len(r.image.data)
            /\ <<x1, y1>> # <<x2, y2>> => (p1 + 3 < p2 \/ p2 + 3 < p1)

C34_WriteFrame ==
    [][\A i \in Refs :
          LET r == resources[i]
              x == last'.args[1]
              y == last'.args[2]
              p == C34_Offset(r, x, y)
          IN  (Did({"setColor", "setAlpha"}, i) /\ ~r.locked /\ Usable(r)
                 /\ InBounds(r, x, y))
              => /\ ret' = RetRef(i)
                 /\ last'.op = "setColor" =>
                        C34_ChangesOnly(i, {p, p + 1, p + 2})
                 /\ last'.op = "setAlpha" => C34_ChangesOnly(i, {p + 3})
                 /\ C34_PixelsDisjoint(r)]_vars

\* setColor(0, 1, 10, 20, 30) on a 1 x 2 resource: the pixel (0, 0) and the
\* alpha of (0, 1) are as create left them
C34_Witness ==
    /\ last = Call("setColor", last.this, <<Num(0), Num(1), <<10, 20, 30>>>>)
    /\ ret = RetRef(last.this)
    /\ resources[last.this].width = 1
    /\ resources[last.this].height = 2
    /\ resources[last.this].image.data =
           <<255, 255, 255, 255, 10, 20, 30, 255>>

(***************************************************************************)
(* C35: create coerces width and height by truncation toward zero and by   *)
(* nothing else: create(w, h) rejects with 'bad width' or 'bad height'     *)
(* exactly when a truncated argument lies outside 1..8192, also when its   *)
(* magnitude reaches the 32-bit integer range, and otherwise makes a       *)
(* Resource of the truncated width and height.                             *)
(***************************************************************************)
C35_TruncationOnly ==
    [][last'.op = "create" =>
          LET w  == last'.args[1]
              h  == last'.args[2]
              ok == TruncInRange(w) /\ TruncInRange(h)
          IN  /\ Newest'.error \in {"bad width", "bad height"} <=> ~ok
              /\ ok => /\ Newest'.width = Trunc(w)
                       /\ Newest'.height = Trunc(h)]_vars

(***************************************************************************)
(* C36: in the variant of the factory that keeps a resource registry,      *)
(* every create call, also one that fails validation, completes and leaves *)
(* the new Resource registered under its id, so that the registry maps     *)
(* each assigned id to exactly the Resource that carries it.               *)
(***************************************************************************)
C36_CreateRegisters ==
    [][last'.op = "create" =>
          /\ ret' = RetRef(Len(resources'))
          /\ Newest'.id = count
          /\ registry'.defined
          /\ DOMAIN registry'.at = 1..count'
          /\ \A k \in DOMAIN registry'.at :
                 /\ registry'.at[k].id = k - 1
                 /\ registry'.at[k] = resources'[k]]_vars

(***************************************************************************)
(* C37: the minified CanvasImage build is behaviourally equivalent to the  *)
(* unminified version 20250407: from every state the unminified build      *)
(* reaches, the same call gives in both the same Resource (field values,   *)
(* error, buffer and surface) and neither raises an exception the other    *)
(* does not.  The builds differ in the text of create alone, which load,   *)
(* clone and getChannel call; the other methods are the same statements.   *)
(***************************************************************************)
C37_MinifiedEquivalent ==
    [][last'.op = "create" =>
          LET m == create_min(last'.args[1], last'.args[2], count, now, host)
          IN  /\ ~m.thrown
              /\ ret' = RetRef(Len(resources'))
              /\ m.ci = Newest']_vars

=============================================================================
